---- MODULE Spec2Model ----
(***************************************************************************)
(* Booking lifecycle of the airline booking backend: BookingService        *)
(* (createBooking, updateBooking, cancelBooking, syncWithAmadeus), the     *)
(* AmadeusService calls it makes, the Booking collection with its unique   *)
(* indexes, and the identifier generators of pnrGenerator.                 *)
(*                                                                         *)
(* Every async service method is split at its awaits: one action per       *)
(* resumption, so calls of different requests interleave exactly where the *)
(* event loop can interleave them.                                         *)
(*                                                                         *)
(* The Booking document is modelled with the fields the service reads and  *)
(* writes (pnr, bookingReference, amadeusOrderId, userId, status,          *)
(* statusHistory, lastSyncedAt); statusHistory is an array path, which a   *)
(* new document holds as the empty array.                                  *)
(***************************************************************************)
EXTENDS Integers, Sequences, FiniteSets, TLC

\* ------------------------------------------------------------------ bounds
NumProcs == 2        \* concurrent requests in flight
MaxCalls == 3        \* service calls started in one behaviour
GenClockSpan == 1295 \* generator check: Date.now() in ClockBase..ClockBase+GenClockSpan
GenMaxIdx == 0       \* generator check: each random index in {0, .., GenMaxIdx} or the last index

ClockBase == 1296    \* a clock value whose base-36 form has three digits

\* strings are sequences of characters; << >> is a query parameter left out
LEE == << "L", "E", "E" >>
ROY == << "R", "O", "Y" >>

\* bookingData.passengers: one passenger, and two
OnePassenger ==
  << [ firstName |-> << "A" >>, lastName |-> LEE, type |-> "adult",
       passportNumber |-> << "P", "1" >> ] >>

TwoPassengers ==
  << [ firstName |-> << "A" >>, lastName |-> LEE, type |-> "adult",
       passportNumber |-> << "P", "1" >> ],
     [ firstName |-> << "B" >>, lastName |-> ROY, type |-> "child",
       passportNumber |-> << "P", "2" >> ] >>

\* flight offers: price.total in minor currency units, price.currency, and
\* travelers, the number of travelerPricings of the offer
OfferEUR1 == [ total |-> 10000, currency |-> "EUR", travelers |-> 1 ]
OfferEUR2 == [ total |-> 20000, currency |-> "EUR", travelers |-> 2 ]
OfferUSD2 == [ total |-> 15000, currency |-> "USD", travelers |-> 2 ]

\* createBooking: what the random source and the clock give a call. d is the
\* index drawn for every character of the pnr, rd the index drawn for every
\* character of the reference. The first two differ in both identifiers, the
\* third shares its pnr with the first and its reference with the second.
\* Each input carries its passengers and flight offers: the first one
\* passenger and one offer for one traveler, the second two passengers and two
\* offers in different currencies, the third two passengers and an offer for
\* one traveler.
CreateInputs ==
  { [ d |-> 0, rd |-> 0, clock |-> ClockBase,
      passengers |-> OnePassenger, flightOffers |-> << OfferEUR1 >> ],
    [ d |-> 0, rd |-> 1, clock |-> ClockBase + 1,
      passengers |-> TwoPassengers, flightOffers |-> << OfferEUR2, OfferUSD2 >> ],
    [ d |-> 0, rd |-> 1, clock |-> ClockBase,
      passengers |-> TwoPassengers, flightOffers |-> << OfferEUR1 >> ] }

Procs == 1 .. NumProcs
UserIds == { 1 }                 \* the users that have an account
NoUser == 0          \* userId argument left undefined (admin caller)
NoOrder == 0         \* amadeusOrderId undefined
NoBooking == 0

\* ------------------------------------------------------- pnrGenerator.ts
PNR_CHARACTERS ==
  << "A","B","C","D","E","F","G","H","J","K","L","M","N","P","Q","R",
     "S","T","U","V","W","X","Y","Z","2","3","4","5","6","7","8","9" >>

BOOKING_REF_CHARACTERS ==
  << "A","B","C","D","E","F","G","H","I","J","K","L","M","N","O","P","Q","R",
     "S","T","U","V","W","X","Y","Z","0","1","2","3","4","5","6","7","8","9" >>

\* digits of Number.prototype.toString(36)
Digits36 ==
  << "0","1","2","3","4","5","6","7","8","9","a","b","c","d","e","f","g","h",
     "i","j","k","l","m","n","o","p","q","r","s","t","u","v","w","x","y","z" >>

UpperOf ==
  [ c \in {Digits36[i] : i \in 1 .. 36} |->
      CASE c = "a" -> "A" [] c = "b" -> "B" [] c = "c" -> "C" [] c = "d" -> "D"
        [] c = "e" -> "E" [] c = "f" -> "F" [] c = "g" -> "G" [] c = "h" -> "H"
        [] c = "i" -> "I" [] c = "j" -> "J" [] c = "k" -> "K" [] c = "l" -> "L"
        [] c = "m" -> "M" [] c = "n" -> "N" [] c = "o" -> "O" [] c = "p" -> "P"
        [] c = "q" -> "Q" [] c = "r" -> "R" [] c = "s" -> "S" [] c = "t" -> "T"
        [] c = "u" -> "U" [] c = "v" -> "V" [] c = "w" -> "W" [] c = "x" -> "X"
        [] c = "y" -> "Y" [] c = "z" -> "Z" [] OTHER -> c ]

RECURSIVE ToString36(_)
\* n.toString(36) for an integer n >= 0, as a sequence of characters
ToString36(n) ==
  IF n < 36 THEN << Digits36[n + 1] >>
  ELSE Append(ToString36(n \div 36), Digits36[(n % 36) + 1])

\* s.toUpperCase()
ToUpperCase(s) == [ i \in 1 .. Len(s) |-> UpperOf[s[i]] ]

\* s.slice(-2)
SliceLast2(s) == IF Len(s) <= 2 THEN s ELSE SubSeq(s, Len(s) - 1, Len(s))

\* s.slice(0, 4)
SliceFirst4(s) == IF Len(s) <= 4 THEN s ELSE SubSeq(s, 1, 4)

\* generatePNR(): draws[i] is the i-th crypto.randomInt(0, 32), clock is Date.now()
generatePNR(draws, clock) ==
  LET pnr == [ i \in 1 .. 6 |-> PNR_CHARACTERS[draws[i] + 1] ]
      timestamp == ToUpperCase(SliceLast2(ToString36(clock)))
  IN  SliceFirst4(pnr) \o timestamp

\* generateBookingReference(): draws[i] is the i-th crypto.randomInt(0, 36)
generateBookingReference(draws) ==
  [ i \in 1 .. 8 |-> BOOKING_REF_CHARACTERS[draws[i] + 1] ]

CharSet(s) == { s[i] : i \in 1 .. Len(s) }

\* the schema's match on pnr: /^[A-Z0-9]{6}$/
PnrMatches(pnr) ==
  /\ Len(pnr) = 6
  /\ CharSet(pnr) \subseteq CharSet(BOOKING_REF_CHARACTERS)


\* ------------------------------------------------------------------ state
VARIABLES
  bookings,   \* the Booking collection: bookings[i] is the document with _id i
  orders,     \* the provider's flight orders: orders[i] is the state of order i
  proc,       \* per request: the running service call, its position and locals
  nextCall,   \* number of service calls started so far
  last,       \* the service call that finished last: what it was and how it ended
  gen,        \* inputs and outputs of a stand-alone run of the identifier generators
  user,       \* the User document of the account: loginAttempts and lockUntil
  req,        \* per request: the login or authenticate call that runs in it
  jwt         \* the access tokens: which have expired, which are blacklisted

vars == << bookings, orders, proc, nextCall, last, gen, user, req, jwt >>

Statuses == { "pending", "confirmed", "cancelled", "expired", "refunded", "completed" }

\* the values bookingUpdateSchema accepts for status
UpdateStatuses == { "confirmed", "cancelled", "pending", "expired", "refunded" }

\* status values the data model calls terminal
Terminal == { "cancelled", "expired", "refunded", "completed" }

Reasons == { "customer request" }

EmptyDoc ==
  [ userId |-> NoUser, pnr |-> << >>, bookingReference |-> << >>,
    amadeusOrderId |-> NoOrder, status |-> "pending", statusHistory |-> << >>,
    lastSyncedAt |-> FALSE, made |-> NoOrder, hold |-> "running",
    passengers |-> << >>, contactInfo |-> [ email |-> << >>, phone |-> << >> ],
    pricing |-> [ currency |-> "", totalPrice |-> 0, passengerPricing |-> << >> ] ]

\* bookingData of a call that is not a createBooking
NoData == [ passengers |-> << >>, flightOffers |-> << >> ]

IdleProc ==
  [ op |-> "none", pc |-> "idle", bid |-> NoBooking, doc |-> EmptyDoc,
    seen |-> "none", modStatus |-> FALSE, pushed |-> << >>, remote |-> "none",
    attempts |-> 0, inserts |-> 0, hoursLeft |-> 0, reason |-> "",
    caller |-> NoUser, data |-> NoData, email |-> "none" ]

NoLast ==
  [ op |-> "none", result |-> "none", bid |-> NoBooking, seen |-> "none",
    remote |-> "none", attempts |-> 0, inserts |-> 0, providerError |-> "none",
    reason |-> "", caller |-> NoUser, email |-> "none" ]

\* a new account: no failed login, no lock, active
NoAccount == [ loginAttempts |-> 0, lockUntil |-> "none", isActive |-> TRUE ]

\* a request slot without a login or authenticate call
IdleReq == [ op |-> "none", pc |-> "idle", read |-> NoAccount, valid |-> FALSE,
            token |-> "none", user |-> FALSE, later |-> FALSE ]

\* no access token has expired or been blacklisted
NoJwt == [ expired |-> { }, blacklisted |-> { }, revoked |-> { } ]

NoGen == [ run |-> FALSE, draws |-> << >>, clock |-> 0, pnr |-> << >> ]

Free(p) == proc[p].pc = "idle"

\* a new call takes the first free request slot (the slots are interchangeable)
CanStart(p) ==
  /\ Free(p)
  /\ \A q \in Procs : q < p => ~ Free(q)
  /\ nextCall < MaxCalls

\* a call that starts now on request slot p
NewCall(p, op) == [ IdleProc EXCEPT !.op = op ]

\* what the result of a call tells the caller about a provider error that
\* the call caught: the catch blocks of createBooking and cancelBooking log
\* the error and keep nothing of it (an error that ends the call is its result)
ReturnedProviderError(remote) == "none"

\* the call with locals pr ends with the given result: the request slot is
\* free again, and what the call was, saw and answered is recorded in last
Finish(p, pr, result) ==
  /\ proc' = [ proc EXCEPT ![p] = IdleProc ]
  /\ last' = [ op |-> pr.op, result |-> result, bid |-> pr.bid, seen |-> pr.seen,
               remote |-> pr.remote, attempts |-> pr.attempts, inserts |-> pr.inserts,
               providerError |-> ReturnedProviderError(pr.remote),
               reason |-> pr.reason, caller |-> pr.caller, email |-> pr.email ]

\* how the promise of an EmailService call settles
EmailOutcomes == { "resolved", "rejected" }
Delivered == { "resolved" }      \* every email is sent

\* a call that awaits the email promise without a handler: a rejection
\* becomes the error of the call
AfterEmail_Awaited(result, email) ==
  IF email = "rejected" THEN "EMAIL_ERROR" ELSE result

\* EmailService.send...(booking).catch(error => logger.error(...)): the
\* promise is not awaited and its rejection is logged, the call goes on to
\* return its result
AfterEmail(result, email) == result

\* the thrown error ends the call
Fail(p, pr, code) == Finish(p, pr, code)

\* the call returns its document
Return(p, pr) == Finish(p, pr, "ok")

\* --------------------------------------------------- the Booking collection
\* a collection whose bookingReference path has no unique index
DuplicateKey_PnrOnly(store, doc) ==
  \E i \in 1 .. Len(store) : store[i].pnr = doc.pnr

\* the unique indexes on pnr and bookingReference reject the insert (E11000)
DuplicateKey(store, doc) ==
  \E i \in 1 .. Len(store) :
     \/ store[i].pnr = doc.pnr
     \/ store[i].bookingReference = doc.bookingReference

\* Booking.findOne({ _id, userId? }) / Booking.findById(_id)
Found(bid, userId) ==
  /\ bid \in 1 .. Len(bookings)
  /\ userId # NoUser => bookings[bid].userId = userId

\* booking.save() of a new document
InsertError(store, doc) ==
  IF ~ PnrMatches(doc.pnr) THEN "VALIDATION_ERROR"
  ELSE IF DuplicateKey(store, doc) THEN "DUPLICATE_KEY_ERROR"
  ELSE "none"

\* a save that writes the whole loaded document back
SaveExisting_WholeDocument(store, bid, pr) ==
  [ store EXCEPT ![bid] = pr.doc ]

\* booking.save() of a loaded document writes the modified paths only:
\* $set of status when it was assigned, $push of the pushed history entries
SaveExisting(store, bid, pr) ==
  [ store EXCEPT
      ![bid].status = IF pr.modStatus THEN pr.doc.status ELSE @,
      ![bid].statusHistory = @ \o pr.pushed,
      ![bid].lastSyncedAt = pr.doc.lastSyncedAt \/ @ ]

HistoryEntry(status, reason) == [ status |-> status, reason |-> reason ]


\* ------------------------------------------------------------------- Init
Init ==
  /\ bookings = << >>
  /\ orders = << >>
  /\ proc = [ p \in Procs |-> IdleProc ]
  /\ nextCall = 0
  /\ last = NoLast
  /\ gen = NoGen
  /\ user = NoAccount
  /\ req = [ p \in Procs |-> IdleReq ]
  /\ jwt = NoJwt

\* --------------------------------------------------------- AmadeusService
\* the number of SDK calls a gateway operation has made when it settles with
\* the given outcome: each operation awaits one SDK call and returns its data
\* or throws from its catch block; none calls the SDK again
GatewayAttempts(outcome) == 1

\* what a gateway operation throws: code is the operation's own error code
\* (AMADEUS_BOOKING_ERROR, AMADEUS_ORDER_ERROR, AMADEUS_CANCELLATION_ERROR).
\* An error response gives the bad-request error with that code; without a
\* response the catch block calls createError.internalServerError, which
\* createError does not have, so the call itself throws a TypeError
GatewayError(code, outcome) ==
  IF outcome = "rejected" THEN code ELSE "TypeError"

\* ------------------------------------------ BookingService.createBooking
RECURSIVE SumTotal(_)
\* flightOffers.reduce((sum, offer) => sum + parseFloat(offer.price.total), 0)
SumTotal(flightOffers) ==
  IF flightOffers = << >> THEN 0
  ELSE SumTotal(SubSeq(flightOffers, 1, Len(flightOffers) - 1))
         + flightOffers[Len(flightOffers)].total

\* the pricing of the new document: the currency of the first offer, the sum
\* of the totals of all offers, and no passengerPricing (the path is not
\* written, the schema's array stays empty)
Pricing(flightOffers) ==
  [ currency |-> flightOffers[1].currency,
    totalPrice |-> SumTotal(flightOffers),
    passengerPricing |-> << >> ]

\* User.findById finds no user: USER_NOT_FOUND
CreateUserNotFound(p, u) ==
  /\ CanStart(p)
  /\ u \notin UserIds
  /\ Fail(p, NewCall(p, "create"), "USER_NOT_FOUND")
  /\ nextCall' = nextCall + 1
  /\ UNCHANGED << bookings, orders, gen, user, req, jwt >>

\* the user exists: both identifiers are generated, the flight order request is
\* sent to the provider and the call awaits the answer; nothing is saved yet
CreateBegin(p, u, d, rd, clock, passengers, flightOffers) ==
  /\ CanStart(p)
  /\ u \in UserIds
  /\ LET pnr == generatePNR([ i \in 1 .. 6 |-> d ], clock)
         ref == generateBookingReference([ i \in 1 .. 8 |-> rd ])
         pr  == [ NewCall(p, "create") EXCEPT
                    !.pc = "createAwaitAmadeus",
                    !.data = [ passengers |-> passengers,
                               flightOffers |-> flightOffers ],
                    !.doc = [ EmptyDoc EXCEPT !.userId = u, !.pnr = pnr,
                                !.bookingReference = ref,
                                !.passengers = passengers,
                                !.pricing = Pricing(flightOffers) ] ]
     IN  proc' = [ proc EXCEPT ![p] = pr ]
  /\ nextCall' = nextCall + 1
  /\ UNCHANGED << bookings, orders, last, gen, user, req, jwt >>

\* status of the new document: amadeusOrderId ? 'confirmed' : 'pending'
InitialStatus(orderId) == IF orderId # NoOrder THEN "confirmed" ELSE "pending"

\* the document createBooking builds once the provider call has settled
\* (its field made is history: the order the provider made for this request,
\* known to the service or not)
NewBooking(doc, orderId) ==
  [ doc EXCEPT !.amadeusOrderId = orderId, !.status = InitialStatus(orderId) ]

\* AmadeusService.createFlightBooking resolves: the provider created the order
\* and its id came back; the document is built and its save is issued
AmadeusCreateOk(p) ==
  /\ proc[p].pc = "createAwaitAmadeus"
  /\ orders' = Append(orders, "active")
  /\ proc' = [ proc EXCEPT ![p].pc = "createAwaitSave",
                           ![p].remote = "ok",
                           ![p].attempts = GatewayAttempts("ok"),
                           ![p].doc = [ NewBooking(@, Len(orders) + 1) EXCEPT
                                          !.made = Len(orders) + 1 ] ]
  /\ UNCHANGED << bookings, nextCall, last, gen, user, req, jwt >>

\* the provider answered with an error response (AMADEUS_BOOKING_ERROR):
\* the catch block logs it and the local booking is created without order id
AmadeusCreateRejected(p) ==
  /\ proc[p].pc = "createAwaitAmadeus"
  /\ proc' = [ proc EXCEPT ![p].pc = "createAwaitSave",
                           ![p].remote = "rejected",
                           ![p].attempts = GatewayAttempts("rejected"),
                           ![p].doc = NewBooking(@, NoOrder) ]
  /\ UNCHANGED << bookings, orders, nextCall, last, gen, user, req, jwt >>

\* no response arrived (network failure, timeout): the provider may or may not
\* have created the order; the catch block continues as for a rejection
AmadeusCreateIndeterminate(p, created) ==
  /\ proc[p].pc = "createAwaitAmadeus"
  /\ orders' = IF created THEN Append(orders, "active") ELSE orders
  /\ proc' = [ proc EXCEPT ![p].pc = "createAwaitSave",
                           ![p].remote = "indeterminate",
                           ![p].attempts = GatewayAttempts("indeterminate"),
                           ![p].doc = [ NewBooking(@, NoOrder) EXCEPT
                                          !.made = IF created THEN Len(orders) + 1
                                                   ELSE NoOrder ] ]
  /\ UNCHANGED << bookings, nextCall, last, gen, user, req, jwt >>

\* a createBooking that logs the save error and carries on
CreateSaveFailure_Swallowed(err) == "ok"

\* what createBooking does with an error of booking.save(): the outer catch
\* logs and rethrows it, there is no second attempt
CreateSaveFailure(err) == err

\* booking.save(): the store validates and inserts the document, or rejects it
\* and, after a successful save, sendBookingConfirmation is called; email is
\* how its promise settles
CreateSave(p, email) ==
  /\ proc[p].pc = "createAwaitSave"
  /\ email \in EmailOutcomes
  /\ LET pr  == [ proc[p] EXCEPT !.inserts = @ + 1 ]
         err == InsertError(bookings, pr.doc)
     IN  IF err = "none"
         THEN /\ bookings' = Append(bookings, pr.doc)
              /\ Finish(p, [ pr EXCEPT !.bid = Len(bookings) + 1, !.email = email ],
                        AfterEmail("ok", email))
         ELSE /\ bookings' = bookings
              /\ Fail(p, pr, CreateSaveFailure(err))
  /\ UNCHANGED << orders, nextCall, gen, user, req, jwt >>

\* ----------------------------------------- BookingService.getBookingById
\* findOne({ _id, userId? }) finds nothing: BOOKING_NOT_FOUND
GetNotFound(p, bid, caller, userId) ==
  /\ CanStart(p)
  /\ ~ Found(bid, userId)
  /\ Fail(p, [ NewCall(p, "get") EXCEPT !.caller = caller, !.bid = bid ],
           "BOOKING_NOT_FOUND")
  /\ nextCall' = nextCall + 1
  /\ UNCHANGED << bookings, orders, gen, user, req, jwt >>

\* the document that findOne found is returned
GetFound(p, bid, caller, userId) ==
  /\ CanStart(p)
  /\ Found(bid, userId)
  /\ Return(p, [ NewCall(p, "get") EXCEPT !.caller = caller, !.bid = bid,
                    !.doc = bookings[bid], !.seen = bookings[bid].status ])
  /\ nextCall' = nextCall + 1
  /\ UNCHANGED << bookings, orders, gen, user, req, jwt >>

\* ------------------------------------------ BookingService.updateBooking
UpdateNotFound(p, bid, caller, userId) ==
  /\ CanStart(p)
  /\ ~ Found(bid, userId)
  /\ Fail(p, [ NewCall(p, "update") EXCEPT !.caller = caller, !.bid = bid ],
           "BOOKING_NOT_FOUND")
  /\ nextCall' = nextCall + 1
  /\ UNCHANGED << bookings, orders, gen, user, req, jwt >>

\* the loaded document after the update data was applied to it; status is
\* "none" when updateData carries no status
ApplyUpdate(pr, status) ==
  IF status = "none" THEN pr
  ELSE [ pr EXCEPT !.doc.status = status,
                   !.modStatus = (status # pr.doc.status),
                   !.doc.statusHistory = Append(@, HistoryEntry(status, "Manual update")),
                   !.pushed = Append(@, HistoryEntry(status, "Manual update")) ]

\* whole hours from the time of an updateBooking call to the first departure
\* of the booking it is for: fewer than, exactly and more than two
HoursLeft == { 1, 2, 3 }

\* findOne loads the document, the update data is applied in memory and the
\* save is issued, whatever the status of the booking and however close its
\* departure (hoursLeft) is
UpdateBegin(p, bid, caller, userId, status, hoursLeft) ==
  /\ CanStart(p)
  /\ Found(bid, userId)
  /\ LET pr == [ NewCall(p, "update") EXCEPT !.caller = caller,
                   !.pc = "updateAwaitSave", !.bid = bid, !.hoursLeft = hoursLeft,
                   !.doc = bookings[bid], !.seen = bookings[bid].status ]
     IN  proc' = [ proc EXCEPT ![p] = ApplyUpdate(pr, status) ]
  /\ nextCall' = nextCall + 1
  /\ UNCHANGED << bookings, orders, last, gen, user, req, jwt >>

UpdateSave(p) ==
  /\ proc[p].pc = "updateAwaitSave"
  /\ bookings' = SaveExisting(bookings, proc[p].bid, proc[p])
  /\ Return(p, proc[p])
  /\ UNCHANGED << orders, nextCall, gen, user, req, jwt >>


\* ------------------------------------------ BookingService.cancelBooking
\* the reasons a request body can carry: a reason, or none ("")
ReasonInputs == Reasons \cup { "" }

\* a controller that passes every request on to the service
MissingReason_Never(reason) == FALSE

\* the controller's check of the request body: !reason
MissingReason(reason) == reason = ""

\* the controller refuses a request without reason before it calls the service
CancelMissingReason(p, bid, reason) ==
  /\ CanStart(p)
  /\ MissingReason(reason)
  /\ Fail(p, [ NewCall(p, "cancel") EXCEPT !.bid = bid, !.reason = reason ],
           "MISSING_REASON")
  /\ nextCall' = nextCall + 1
  /\ UNCHANGED << bookings, orders, gen, user, req, jwt >>

CancelNotFound(p, bid, caller, userId, reason) ==
  /\ CanStart(p)
  /\ ~ MissingReason(reason)
  /\ ~ Found(bid, userId)
  /\ Fail(p, [ NewCall(p, "cancel") EXCEPT !.caller = caller, !.bid = bid,
                                           !.reason = reason ],
           "BOOKING_NOT_FOUND")
  /\ nextCall' = nextCall + 1
  /\ UNCHANGED << bookings, orders, gen, user, req, jwt >>

\* a cancelBooking without its status check
AlreadyCancelled_Never(status) == FALSE

\* the only status cancelBooking refuses: booking.status === 'cancelled'
AlreadyCancelled(status) == status = "cancelled"

CancelAlreadyCancelled(p, bid, caller, userId, reason) ==
  /\ CanStart(p)
  /\ ~ MissingReason(reason)
  /\ Found(bid, userId)
  /\ AlreadyCancelled(bookings[bid].status)
  /\ LET pr == [ NewCall(p, "cancel") EXCEPT !.caller = caller,
                   !.bid = bid, !.reason = reason, !.doc = bookings[bid], !.seen = bookings[bid].status ]
     IN  Fail(p, pr, "BOOKING_ALREADY_CANCELLED")
  /\ nextCall' = nextCall + 1
  /\ UNCHANGED << bookings, orders, gen, user, req, jwt >>

\* the loaded document after the status update of cancelBooking
ApplyCancel(pr, reason) ==
  [ pr EXCEPT !.doc.status = "cancelled",
              !.modStatus = (pr.doc.status # "cancelled"),
              !.doc.statusHistory = Append(@, HistoryEntry("cancelled", reason)),
              !.pushed = Append(@, HistoryEntry("cancelled", reason)) ]

\* the booking has no amadeusOrderId: no provider call, the status update is
\* applied in memory and the save is issued
CancelLocal(p, bid, caller, userId, reason) ==
  /\ CanStart(p)
  /\ ~ MissingReason(reason)
  /\ Found(bid, userId)
  /\ ~ AlreadyCancelled(bookings[bid].status)
  /\ bookings[bid].amadeusOrderId = NoOrder
  /\ LET pr == [ NewCall(p, "cancel") EXCEPT !.caller = caller,
                   !.pc = "cancelAwaitSave", !.bid = bid, !.reason = reason,
                   !.doc = bookings[bid], !.seen = bookings[bid].status ]
     IN  proc' = [ proc EXCEPT ![p] = ApplyCancel(pr, reason) ]
  /\ nextCall' = nextCall + 1
  /\ UNCHANGED << bookings, orders, last, gen, user, req, jwt >>

\* the booking has an amadeusOrderId: cancelFlightOrder is called and awaited
CancelCallAmadeus(p, bid, caller, userId, reason) ==
  /\ CanStart(p)
  /\ ~ MissingReason(reason)
  /\ Found(bid, userId)
  /\ ~ AlreadyCancelled(bookings[bid].status)
  /\ bookings[bid].amadeusOrderId # NoOrder
  /\ LET pr == [ NewCall(p, "cancel") EXCEPT !.caller = caller,
                   !.pc = "cancelAwaitAmadeus", !.bid = bid, !.reason = reason,
                   !.doc = bookings[bid], !.seen = bookings[bid].status ]
     IN  proc' = [ proc EXCEPT ![p] = pr ]
  /\ nextCall' = nextCall + 1
  /\ UNCHANGED << bookings, orders, last, gen, user, req, jwt >>

\* a cancelBooking without the inner try/catch: the provider's error ends it
RemoteCancelAborts_OnError(outcome) == outcome # "ok"

\* whether an outcome of cancelFlightOrder ends cancelBooking: the inner catch
\* logs every error and the local cancellation continues
RemoteCancelAborts(outcome) == FALSE

\* cancelFlightOrder settles with outcome "ok", "rejected" (error response) or
\* "indeterminate" (no response); the provider has cancelled the order when
\* the outcome is ok, and may have when no response arrived
AmadeusCancel(p, outcome, cancelled, reason) ==
  /\ proc[p].pc = "cancelAwaitAmadeus"
  /\ reason = proc[p].reason
  /\ outcome \in { "ok", "rejected", "indeterminate" }
  /\ cancelled = CASE outcome = "ok" -> TRUE
                   [] outcome = "rejected" -> FALSE
                   [] OTHER -> cancelled
  /\ orders' = IF cancelled
               THEN [ orders EXCEPT ![proc[p].doc.amadeusOrderId] = "cancelled" ]
               ELSE orders
  /\ LET pr == [ proc[p] EXCEPT !.remote = outcome,
                                !.attempts = GatewayAttempts(outcome) ]
     IN  IF RemoteCancelAborts(outcome)
         THEN Fail(p, pr, "AMADEUS_CANCELLATION_ERROR")
         ELSE /\ proc' = [ proc EXCEPT ![p] = [ ApplyCancel(pr, reason) EXCEPT
                                                 !.pc = "cancelAwaitSave" ] ]
              /\ last' = last
  /\ UNCHANGED << bookings, nextCall, gen, user, req, jwt >>

\* booking.save(), then sendBookingCancellation is called; email is how its
\* promise settles
CancelSave(p, email) ==
  /\ proc[p].pc = "cancelAwaitSave"
  /\ email \in EmailOutcomes
  /\ bookings' = SaveExisting(bookings, proc[p].bid, proc[p])
  /\ Finish(p, [ proc[p] EXCEPT !.email = email ], AfterEmail("ok", email))
  /\ UNCHANGED << orders, nextCall, gen, user, req, jwt >>

\* ---------------------------------------- BookingService.syncWithAmadeus
SyncNotFound(p, bid) ==
  /\ CanStart(p)
  /\ ~ Found(bid, NoUser)
  /\ Fail(p, [ NewCall(p, "sync") EXCEPT !.bid = bid ], "BOOKING_NOT_FOUND")
  /\ nextCall' = nextCall + 1
  /\ UNCHANGED << bookings, orders, gen, user, req, jwt >>

SyncNoOrder(p, bid) ==
  /\ CanStart(p)
  /\ Found(bid, NoUser)
  /\ bookings[bid].amadeusOrderId = NoOrder
  /\ LET pr == [ NewCall(p, "sync") EXCEPT
                   !.bid = bid, !.doc = bookings[bid], !.seen = bookings[bid].status ]
     IN  Fail(p, pr, "NO_AMADEUS_ORDER")
  /\ nextCall' = nextCall + 1
  /\ UNCHANGED << bookings, orders, gen, user, req, jwt >>

SyncBegin(p, bid) ==
  /\ CanStart(p)
  /\ Found(bid, NoUser)
  /\ bookings[bid].amadeusOrderId # NoOrder
  /\ LET pr == [ NewCall(p, "sync") EXCEPT
                   !.pc = "syncAwaitAmadeus", !.bid = bid,
                   !.doc = bookings[bid], !.seen = bookings[bid].status ]
     IN  proc' = [ proc EXCEPT ![p] = pr ]
  /\ nextCall' = nextCall + 1
  /\ UNCHANGED << bookings, orders, last, gen, user, req, jwt >>

\* what the provider reports as the state of the order
Snapshots == { "confirmed", "cancelled" }

\* a syncWithAmadeus that copies the provider's order state into the booking
SyncedStatus_FromProvider(status, snapshot) == snapshot

\* the status of the booking after the order was fetched: the fetched order
\* is not applied to the booking
SyncedStatus(status, snapshot) == status

\* getFlightOrder returned the order: only lastSyncedAt is set, whatever the
\* order says, and the save is issued
AmadeusGetOrderOk(p, snapshot) ==
  /\ proc[p].pc = "syncAwaitAmadeus"
  /\ snapshot \in Snapshots
  /\ LET status == SyncedStatus(proc[p].doc.status, snapshot)
     IN  proc' = [ proc EXCEPT ![p].pc = "syncAwaitSave",
                              ![p].remote = "ok",
                              ![p].attempts = GatewayAttempts("ok"),
                              ![p].modStatus = (status # proc[p].doc.status),
                              ![p].doc.status = status,
                              ![p].doc.lastSyncedAt = TRUE ]
  /\ UNCHANGED << bookings, orders, nextCall, last, gen, user, req, jwt >>

\* getFlightOrder threw: syncWithAmadeus rethrows
AmadeusGetOrderFails(p, outcome) ==
  /\ proc[p].pc = "syncAwaitAmadeus"
  /\ outcome \in { "rejected", "indeterminate" }
  /\ Fail(p, [ proc[p] EXCEPT !.remote = outcome,
                              !.attempts = GatewayAttempts(outcome) ],
           GatewayError("AMADEUS_ORDER_ERROR", outcome))
  /\ UNCHANGED << bookings, orders, nextCall, gen, user, req, jwt >>

SyncSave(p) ==
  /\ proc[p].pc = "syncAwaitSave"
  /\ bookings' = SaveExisting(bookings, proc[p].bid, proc[p])
  /\ Return(p, proc[p])
  /\ UNCHANGED << orders, nextCall, gen, user, req, jwt >>

\* ------------------------------------------------------------------- Next
BookingIds == 1 .. (Len(bookings) + 1)   \* one id more than the store holds
Admins == { 3 }                  \* the callers whose role is admin
\* authenticated callers; 2 has no account and no booking
Callers == UserIds \cup { 2 } \cup Admins
Customers == Callers \ Admins    \* the callers whose role is user

\* req.user.role
Role(caller) == IF caller \in Admins THEN "admin" ELSE "user"

\* a controller that passes no userId to the service, whoever calls
SearchUserId_Unfiltered(role, userId) == NoUser

\* the controllers of getBookingById, updateBooking and cancelBooking:
\* searchUserId = req.user.role === 'admin' ? undefined : userId
SearchUserId(role, userId) == IF role = "admin" THEN NoUser ELSE userId

\* the steps of request slot p in createBooking, with the given inputs and
\* email outcomes
CreateNextBy(p, inputs, emails) ==
  \/ \E u \in Customers : CreateUserNotFound(p, u)
  \/ \E u \in UserIds, inp \in inputs : CreateBegin(p, u, inp.d, inp.rd, inp.clock,
                                                             inp.passengers, inp.flightOffers)
  \/ AmadeusCreateOk(p)
  \/ AmadeusCreateRejected(p)
  \/ \E created \in BOOLEAN : AmadeusCreateIndeterminate(p, created)
  \/ \E email \in emails : CreateSave(p, email)

\* the steps of request slot p, for requests of the given callers
GetNextBy(p, callers) ==
  \/ \E bid \in BookingIds, caller \in callers :
        GetNotFound(p, bid, caller, SearchUserId(Role(caller), caller))
  \/ \E bid \in BookingIds, caller \in callers :
        GetFound(p, bid, caller, SearchUserId(Role(caller), caller))

UpdateNextBy(p, callers) ==
  \/ \E bid \in BookingIds, caller \in callers :
        UpdateNotFound(p, bid, caller, SearchUserId(Role(caller), caller))
  \/ \E bid \in BookingIds, caller \in callers,
        status \in UpdateStatuses \cup { "none" }, hoursLeft \in HoursLeft :
           UpdateBegin(p, bid, caller, SearchUserId(Role(caller), caller),
                       status, hoursLeft)
  \/ UpdateSave(p)

CancelNextBy(p, callers, emails) ==
  \/ \E bid \in BookingIds, reason \in ReasonInputs : CancelMissingReason(p, bid, reason)
  \/ \E bid \in BookingIds, caller \in callers, reason \in ReasonInputs :
        CancelNotFound(p, bid, caller, SearchUserId(Role(caller), caller), reason)
  \/ \E bid \in BookingIds, caller \in callers, reason \in ReasonInputs :
        CancelAlreadyCancelled(p, bid, caller, SearchUserId(Role(caller), caller), reason)
  \/ \E bid \in BookingIds, caller \in callers, reason \in ReasonInputs :
        CancelLocal(p, bid, caller, SearchUserId(Role(caller), caller), reason)
  \/ \E bid \in BookingIds, caller \in callers, reason \in ReasonInputs :
        CancelCallAmadeus(p, bid, caller, SearchUserId(Role(caller), caller), reason)
  \/ \E outcome \in { "ok", "rejected", "indeterminate" }, cancelled \in BOOLEAN,
        reason \in ReasonInputs : AmadeusCancel(p, outcome, cancelled, reason)
  \/ \E email \in emails : CancelSave(p, email)

GetNext(p) == GetNextBy(p, Callers)

UpdateNext(p) == UpdateNextBy(p, Callers)

CreateNext(p) == CreateNextBy(p, CreateInputs, EmailOutcomes)

CancelNext(p) == CancelNextBy(p, Callers, EmailOutcomes)

SyncNext(p) ==
  \/ \E bid \in BookingIds : SyncNotFound(p, bid)
  \/ \E bid \in BookingIds : SyncNoOrder(p, bid)
  \/ \E bid \in BookingIds : SyncBegin(p, bid)
  \/ \E snapshot \in Snapshots : AmadeusGetOrderOk(p, snapshot)
  \/ \E outcome \in { "rejected", "indeterminate" } : AmadeusGetOrderFails(p, outcome)
  \/ SyncSave(p)

\* the steps of request slot p
ProcNext(p) ==
  CreateNext(p) \/ GetNext(p) \/ UpdateNext(p) \/ CancelNext(p) \/ SyncNext(p)

Next == \E p \in Procs : ProcNext(p)

Spec == Init /\ [][Next]_vars


\* one client: its calls run one after the other
NextSeq == ProcNext(1)

SpecSeq == Init /\ [][NextSeq]_vars

\* --------------------------------------------------------- time passing
\* Date.now() in relation to the expiresAt that createBooking gave booking
\* bid (24 hours after its creation): hold is "running" before expiresAt,
\* "expired" once the clock has passed it, and "swept" once a further period
\* has passed, in which a periodic job would have run. No code of the
\* service runs at either instant.
HoldTimePasses(bid) ==
  /\ bid \in 1 .. Len(bookings)
  /\ bookings[bid].hold # "swept"
  /\ bookings' = [ bookings EXCEPT
                     ![bid].hold = IF @ = "running" THEN "expired" ELSE "swept" ]
  /\ UNCHANGED << orders, proc, nextCall, last, gen, user, req, jwt >>


\* concurrent createBooking calls and nothing else; every email is sent
NextCreate == \E p \in Procs : CreateNextBy(p, CreateInputs, Delivered)

SpecCreate == Init /\ [][NextCreate]_vars

\* the creation inputs with as many passengers as their offers have travelers
\* (their identifiers differ from each other)
PlainInputs ==
  { inp \in CreateInputs :
      \A i \in 1 .. Len(inp.flightOffers) :
         inp.flightOffers[i].travelers = Len(inp.passengers) }

\* concurrent createBooking and cancelBooking calls of the customers; every
\* passenger list matches its offers, every email is sent
NextCancel ==
  \E p \in Procs :
     \/ CreateNextBy(p, PlainInputs, Delivered)
     \/ CancelNextBy(p, Customers, Delivered)

SpecCancel == Init /\ [][NextCancel]_vars

\* concurrent createBooking and cancelBooking calls of the customers, and
\* syncWithAmadeus calls; every passenger list matches its offers, every email
\* is sent
NextSync ==
  \E p \in Procs :
     \/ CreateNextBy(p, PlainInputs, Delivered)
     \/ CancelNextBy(p, Customers, Delivered)
     \/ SyncNext(p)

SpecSync == Init /\ [][NextSync]_vars

\* the calls of the customers as in NextSync, their updateBooking calls, and
\* time passing for the stored bookings
NextExpiry ==
  \/ \E p \in Procs :
        \/ CreateNextBy(p, PlainInputs, Delivered)
        \/ UpdateNextBy(p, Customers)
        \/ CancelNextBy(p, Customers, Delivered)
        \/ SyncNext(p)
  \/ \E bid \in 1 .. Len(bookings) : HoldTimePasses(bid)

SpecExpiry == Init /\ [][NextExpiry]_vars

\* the creation inputs with one passenger and one flight offer for one traveler
SingleInputs == { inp \in PlainInputs : Len(inp.passengers) = 1 }

\* concurrent createBooking, updateBooking and cancelBooking calls of the
\* owners; every booking has one passenger, every email is sent
NextHistory ==
  \E p \in Procs :
     \/ CreateNextBy(p, SingleInputs, Delivered)
     \/ UpdateNextBy(p, UserIds)
     \/ CancelNextBy(p, UserIds, Delivered)

SpecHistory == Init /\ [][NextHistory]_vars

\* ------------------------------------- the identifier generator on its own
GenIdx == (0 .. GenMaxIdx) \cup { Len(PNR_CHARACTERS) - 1 }

InitGen ==
  /\ bookings = << >>
  /\ orders = << >>
  /\ proc = [ p \in Procs |-> IdleProc ]
  /\ nextCall = 0
  /\ last = NoLast
  /\ \E draws \in [ 1 .. 6 -> GenIdx ], clock \in ClockBase .. (ClockBase + GenClockSpan) :
        gen = [ run |-> FALSE, draws |-> draws, clock |-> clock, pnr |-> << >> ]
  /\ user = NoAccount
  /\ req = [ p \in Procs |-> IdleReq ]
  /\ jwt = NoJwt

GeneratePNR ==
  /\ ~ gen.run
  /\ gen' = [ gen EXCEPT !.run = TRUE, !.pnr = generatePNR(gen.draws, gen.clock) ]
  /\ UNCHANGED << bookings, orders, proc, nextCall, last, user, req, jwt >>

NextGen == GeneratePNR

SpecGen == InitGen /\ [][NextGen]_vars

\* ------------------------------------------------ the public PNR lookup
LeeAtMail == << "l", "e", "e", "@", "m", ".", "i", "o" >>
AnnLeeAtMail == << "a", "n", "n", "l", "e", "e", "@", "m", ".", "i", "o" >>

\* the passengers of a stored booking, with the passport number of each
PassengerLists ==
  { OnePassenger,
    << [ firstName |-> << "B" >>, lastName |-> ROY, type |-> "adult",
         passportNumber |-> << "P", "2" >> ] >>,
    TwoPassengers }

ContactInfos ==
  { [ email |-> LeeAtMail, phone |-> << "5", "5", "5" >> ],
    [ email |-> AnnLeeAtMail, phone |-> << "5", "5", "6" >> ] }

\* the lastName query parameter: none, a stored name in either case, part of
\* a stored name, any one character, and a name that no passenger has
LastNameInputs ==
  { << >>, LEE, << "l", "e", "e" >>, << "E" >>, << "." >>, << "K", "I", "M" >> }

\* the email query parameter: none, a stored address, an address nobody has
EmailInputs == { << >>, LeeAtMail, << "k", "@", "m", ".", "i", "o" >> }

\* the document createBooking saves for the given input, confirmed
SavedDoc(inp, passengers, contactInfo) ==
  [ EmptyDoc EXCEPT
      !.userId = 1,
      !.pnr = generatePNR([ i \in 1 .. 6 |-> inp.d ], inp.clock),
      !.bookingReference = generateBookingReference([ i \in 1 .. 8 |-> inp.rd ]),
      !.status = "confirmed",
      !.passengers = passengers, !.contactInfo = contactInfo ]

\* the pnr path parameter: the pnr of a creation input, as stored
PnrInputs == { generatePNR([ i \in 1 .. 6 |-> inp.d ], inp.clock) : inp \in CreateInputs }

\* the collection holds one or two saved bookings with different identifiers
InitLookup ==
  /\ \E store \in UNION { [ 1 .. n -> { SavedDoc(inp, ps, ci) :
                                           inp \in CreateInputs, ps \in PassengerLists,
                                           ci \in ContactInfos } ] : n \in 1 .. 2 } :
        /\ \A i, j \in DOMAIN store :
              i # j => /\ store[i].pnr # store[j].pnr
                       /\ store[i].bookingReference # store[j].bookingReference
        /\ bookings = store
  /\ orders = << >>
  /\ proc = [ p \in Procs |-> IdleProc ]
  /\ nextCall = 0
  /\ last = NoLast
  /\ gen = NoGen
  /\ user = NoAccount
  /\ req = [ p \in Procs |-> IdleReq ]
  /\ jwt = NoJwt

\* what the i option of $regex does to a character
FoldCase(c) == IF c \in DOMAIN UpperOf THEN UpperOf[c] ELSE c

\* criteria.pnr.toUpperCase()
UpperCase(s) == [ i \in 1 .. Len(s) |-> FoldCase(s[i]) ]

\* { $regex: pattern, $options: 'i' } on text, for a pattern of literal
\* characters and dots: the pattern matches somewhere in the text, a dot
\* matches any character, and case is ignored
RegexMatches(pattern, text) ==
  \E off \in 0 .. (Len(text) - Len(pattern)) :
     \A i \in 1 .. Len(pattern) :
        \/ pattern[i] = "."
        \/ FoldCase(pattern[i]) = FoldCase(text[off + i])

\* the query searchBookings builds from { pnr, lastName?, email? }
LookupQuery(doc, pnr, lastName, email) ==
  /\ doc.pnr = UpperCase(pnr)
  /\ email # << >> => RegexMatches(email, doc.contactInfo.email)
  /\ lastName # << >> =>
        \E i \in 1 .. Len(doc.passengers) : RegexMatches(lastName, doc.passengers[i].lastName)

\* Booking.find(query): the ids of the matching documents
SearchBookings(pnr, lastName, email) ==
  { b \in 1 .. Len(bookings) : LookupQuery(bookings[b], pnr, lastName, email) }

\* publicBookingInfo, for the paths of the document that the model has
PublicBookingInfo(doc) ==
  [ pnr |-> doc.pnr, bookingReference |-> doc.bookingReference, status |-> doc.status,
    passengers |-> [ i \in 1 .. Len(doc.passengers) |->
                       [ firstName |-> doc.passengers[i].firstName,
                         lastName |-> doc.passengers[i].lastName,
                         type |-> doc.passengers[i].type ] ] ]

LookupResult(pnr, lastName, email, result, bid, view) ==
  [ op |-> "lookup", pnr |-> pnr, lastName |-> lastName, email |-> email,
    result |-> result, bid |-> bid, view |-> view ]

\* neither lastName nor email is given: MISSING_VERIFICATION
LookupMissingVerification(pnr, lastName, email) ==
  /\ nextCall < MaxCalls
  /\ lastName = << >> /\ email = << >>
  /\ last' = LookupResult(pnr, lastName, email, "MISSING_VERIFICATION", NoBooking, << >>)
  /\ nextCall' = nextCall + 1
  /\ UNCHANGED << bookings, orders, proc, gen, user, req, jwt >>

\* the search finds nothing: BOOKING_NOT_FOUND
LookupNotFound(pnr, lastName, email) ==
  /\ nextCall < MaxCalls
  /\ lastName # << >> \/ email # << >>
  /\ SearchBookings(pnr, lastName, email) = { }
  /\ last' = LookupResult(pnr, lastName, email, "BOOKING_NOT_FOUND", NoBooking, << >>)
  /\ nextCall' = nextCall + 1
  /\ UNCHANGED << bookings, orders, proc, gen, user, req, jwt >>

\* the first of the found bookings (the pnr is unique: there is one) is
\* returned as publicBookingInfo
LookupFound(pnr, lastName, email) ==
  /\ nextCall < MaxCalls
  /\ lastName # << >> \/ email # << >>
  /\ \E b \in SearchBookings(pnr, lastName, email) :
        last' = LookupResult(pnr, lastName, email, "ok", b, PublicBookingInfo(bookings[b]))
  /\ nextCall' = nextCall + 1
  /\ UNCHANGED << bookings, orders, proc, gen, user, req, jwt >>

NextLookup ==
  \E pnr \in PnrInputs, lastName \in LastNameInputs, email \in EmailInputs :
     \/ LookupMissingVerification(pnr, lastName, email)
     \/ LookupNotFound(pnr, lastName, email)
     \/ LookupFound(pnr, lastName, email)

SpecLookup == InitLookup /\ [][NextLookup]_vars

\* ------------------------------------------------------------ the login
\* failed attempts after which incLoginAttempts locks the account
MaxLoginAttempts == 5

\* lockUntil is "none" (not set), "future" (a date ahead of the clock) or
\* "past" (a date the clock has passed)
\* isLocked(): !!(this.lockUntil && this.lockUntil > new Date())
isLocked(account) == account.lockUntil = "future"

\* the account after the updateOne that incLoginAttempts builds from the
\* document the login has read: a lock that has expired restarts the counter
\* at 1 and unsets lockUntil; otherwise the counter is incremented in the
\* store, and lockUntil is set when the counter that was read, plus one,
\* reaches the limit
incLoginAttempts(account, read) ==
  IF read.lockUntil = "past"
  THEN [ account EXCEPT !.loginAttempts = 1, !.lockUntil = "none" ]
  ELSE [ account EXCEPT
           !.loginAttempts = account.loginAttempts + 1,
           !.lockUntil = IF read.loginAttempts + 1 >= MaxLoginAttempts /\ ~ isLocked(read)
                         THEN "future" ELSE account.lockUntil ]

\* resetLoginAttempts(): $unset of loginAttempts (default 0) and lockUntil
resetLoginAttempts(account) ==
  [ account EXCEPT !.loginAttempts = 0, !.lockUntil = "none" ]

\* the account after a number of failed logins, one after the other
AfterFailures(n) ==
  [ NoAccount EXCEPT
      !.loginAttempts = n,
      !.lockUntil = IF n >= MaxLoginAttempts THEN "future" ELSE "none" ]

InitLogin ==
  /\ bookings = << >>
  /\ orders = << >>
  /\ proc = [ p \in Procs |-> IdleProc ]
  /\ nextCall = 0
  /\ last = NoLast
  /\ gen = NoGen
  /\ user \in { AfterFailures(n) : n \in 0 .. MaxLoginAttempts }
  /\ req = [ p \in Procs |-> IdleReq ]
  /\ jwt = NoJwt

\* a new request takes the first free request slot
CanStartReq(p) ==
  /\ req[p].pc = "idle"
  /\ \A q \in Procs : q < p => req[q].pc # "idle"
  /\ nextCall < MaxCalls

\* the request on p ends with the given result
FinishReq(p, r, result) ==
  /\ req' = [ req EXCEPT ![p] = IdleReq ]
  /\ last' = [ op |-> r.op, result |-> result, read |-> r.read, valid |-> r.valid,
               token |-> r.token, user |-> r.user, later |-> r.later ]

\* User.findOne returns the account and it is locked: ACCOUNT_LOCKED, the
\* password is not compared
LoginLocked(p, valid) ==
  /\ CanStartReq(p)
  /\ isLocked(user)
  /\ FinishReq(p, [ IdleReq EXCEPT !.op = "login", !.read = user, !.valid = valid ],
               "ACCOUNT_LOCKED")
  /\ nextCall' = nextCall + 1
  /\ UNCHANGED << bookings, orders, proc, gen, user, jwt >>

\* User.findOne returns the account, it is not locked and it is active, and
\* comparePassword is awaited; valid is whether the password is the right one
LoginBegin(p, valid) ==
  /\ CanStartReq(p)
  /\ ~ isLocked(user)
  /\ user.isActive
  /\ req' = [ req EXCEPT ![p] = [ IdleReq EXCEPT !.op = "login", !.pc = "comparePassword",
                                                  !.read = user, !.valid = valid ] ]
  /\ nextCall' = nextCall + 1
  /\ UNCHANGED << bookings, orders, proc, last, gen, user, jwt >>

\* wrong password: the update of incLoginAttempts is applied to the store
\* and the login ends with INVALID_CREDENTIALS
LoginFailed(p) ==
  /\ req[p].pc = "comparePassword"
  /\ ~ req[p].valid
  /\ user' = incLoginAttempts(user, req[p].read)
  /\ FinishReq(p, req[p], "INVALID_CREDENTIALS")
  /\ UNCHANGED << bookings, orders, proc, nextCall, gen, jwt >>

\* right password: resetLoginAttempts when the document that was read has
\* failed attempts; then user.save() is awaited
LoginReset(p) ==
  /\ req[p].pc = "comparePassword"
  /\ req[p].valid
  /\ user' = IF req[p].read.loginAttempts > 0 THEN resetLoginAttempts(user) ELSE user
  /\ req' = [ req EXCEPT ![p].pc = "save" ]
  /\ UNCHANGED << bookings, orders, proc, nextCall, last, gen, jwt >>

\* user.save() writes lastLogin, the only modified path; the login succeeds
LoginSave(p) ==
  /\ req[p].pc = "save"
  /\ FinishReq(p, req[p], "ok")
  /\ UNCHANGED << bookings, orders, proc, nextCall, gen, user, jwt >>

\* the clock passes the date in lockUntil
LockExpires ==
  /\ user.lockUntil = "future"
  /\ user' = [ user EXCEPT !.lockUntil = "past" ]
  /\ UNCHANGED << bookings, orders, proc, nextCall, last, gen, req, jwt >>

NextLogin ==
  \/ \E p \in Procs :
        \/ \E valid \in BOOLEAN : LoginLocked(p, valid)
        \/ \E valid \in BOOLEAN : LoginBegin(p, valid)
        \/ LoginFailed(p)
        \/ LoginReset(p)
        \/ LoginSave(p)
  \/ LockExpires

SpecLogin == InitLogin /\ [][NextLogin]_vars

\* -------------------------------------------------- the token blacklist
\* the access tokens issued to the account, both signed and well formed
Tokens == { "t1", "t2" }

\* the routes behind authenticate that blacklist the token of the request
AuthOps == { "logout", "deleteAccount" }

\* JWTUtils.verifyAccessToken(token): jwt.verify throws TokenExpiredError
\* once the clock has reached the exp of the token
verifyAccessToken(token) == IF token \in jwt.expired THEN "TOKEN_EXPIRED" ELSE "ok"

\* an isTokenExpired that reports every token expired
isTokenExpired_Always(token) == TRUE

\* JWTUtils.isTokenExpired(token): the exp of the decoded token is before
\* the clock
isTokenExpired(token) == token \in jwt.expired

\* TokenBlacklist.isBlacklisted(token)
isBlacklisted(token) == token \in jwt.blacklisted

\* TokenBlacklist.addToken(token); revoked keeps every token that was ever
\* added
addToken(token) ==
  [ jwt EXCEPT !.blacklisted = @ \cup { token }, !.revoked = @ \cup { token } ]

\* a request that presents the token; later is whether the token had been
\* added to the blacklist before the call
AuthReq(op, token) ==
  [ IdleReq EXCEPT !.op = op, !.token = token, !.later = token \in jwt.revoked ]

\* authenticate: the token is on the blacklist
AuthenticateRevoked(p, op, token) ==
  /\ CanStartReq(p)
  /\ isBlacklisted(token)
  /\ FinishReq(p, AuthReq(op, token), "TOKEN_REVOKED")
  /\ nextCall' = nextCall + 1
  /\ UNCHANGED << bookings, orders, proc, gen, user, jwt >>

\* authenticate: the token is not on the blacklist and verifyAccessToken
\* finds it expired
AuthenticateExpired(p, op, token) ==
  /\ CanStartReq(p)
  /\ ~ isBlacklisted(token)
  /\ verifyAccessToken(token) # "ok"
  /\ FinishReq(p, AuthReq(op, token), verifyAccessToken(token))
  /\ nextCall' = nextCall + 1
  /\ UNCHANGED << bookings, orders, proc, gen, user, jwt >>

\* authenticate: the token is not on the blacklist, verifyAccessToken
\* returns the payload, and User.findById is awaited
AuthenticateBegin(p, op, token) ==
  /\ CanStartReq(p)
  /\ ~ isBlacklisted(token)
  /\ verifyAccessToken(token) = "ok"
  /\ req' = [ req EXCEPT ![p] = [ AuthReq(op, token) EXCEPT !.pc = "findById" ] ]
  /\ nextCall' = nextCall + 1
  /\ UNCHANGED << bookings, orders, proc, last, gen, user, jwt >>

\* authenticate: the account is deactivated or locked
AuthenticateRefused(p) ==
  /\ req[p].pc = "findById"
  /\ ~ user.isActive \/ isLocked(user)
  /\ FinishReq(p, req[p], IF ~ user.isActive THEN "ACCOUNT_DEACTIVATED"
                                             ELSE "ACCOUNT_LOCKED")
  /\ UNCHANGED << bookings, orders, proc, nextCall, gen, user, jwt >>

\* authenticate: the user and the token are attached to the request, next()
AuthenticateAttach(p) ==
  /\ req[p].pc = "findById"
  /\ user.isActive
  /\ ~ isLocked(user)
  /\ req' = [ req EXCEPT ![p].user = TRUE, ![p].pc = "handler" ]
  /\ UNCHANGED << bookings, orders, proc, nextCall, last, gen, user, jwt >>

\* logout: the token of the request is added to the blacklist
Logout(p) ==
  /\ req[p].pc = "handler"
  /\ req[p].op = "logout"
  /\ jwt' = addToken(req[p].token)
  /\ FinishReq(p, req[p], "ok")
  /\ UNCHANGED << bookings, orders, proc, nextCall, gen, user >>

\* deleteAccount: the account is deactivated and user.save() is awaited
DeleteAccountSave(p) ==
  /\ req[p].pc = "handler"
  /\ req[p].op = "deleteAccount"
  /\ user' = [ user EXCEPT !.isActive = FALSE ]
  /\ req' = [ req EXCEPT ![p].pc = "addToken" ]
  /\ UNCHANGED << bookings, orders, proc, nextCall, last, gen, jwt >>

\* deleteAccount: the token of the request is added to the blacklist
DeleteAccountAdd(p) ==
  /\ req[p].pc = "addToken"
  /\ jwt' = addToken(req[p].token)
  /\ FinishReq(p, req[p], "ok")
  /\ UNCHANGED << bookings, orders, proc, nextCall, gen, user >>

\* TokenBlacklist.cleanupExpiredTokens(), run every hour: the tokens that
\* isTokenExpired reports are deleted from the blacklist (a run that finds
\* none changes nothing)
cleanupExpiredTokens ==
  /\ \E token \in jwt.blacklisted : isTokenExpired(token)
  /\ jwt' = [ jwt EXCEPT !.blacklisted = { token \in @ : ~ isTokenExpired(token) } ]
  /\ UNCHANGED << bookings, orders, proc, nextCall, last, gen, user, req >>

\* the clock passes the exp of the token
TokenExpires(token) ==
  /\ token \notin jwt.expired
  /\ jwt' = [ jwt EXCEPT !.expired = @ \cup { token } ]
  /\ UNCHANGED << bookings, orders, proc, nextCall, last, gen, user, req >>

NextTokens ==
  \/ \E p \in Procs :
        \/ \E op \in AuthOps, token \in Tokens :
              \/ AuthenticateRevoked(p, op, token)
              \/ AuthenticateExpired(p, op, token)
              \/ AuthenticateBegin(p, op, token)
        \/ AuthenticateRefused(p)
        \/ AuthenticateAttach(p)
        \/ Logout(p)
        \/ DeleteAccountSave(p)
        \/ DeleteAccountAdd(p)
  \/ cleanupExpiredTokens
  \/ \E token \in Tokens : TokenExpires(token)

SpecTokens == Init /\ [][NextTokens]_vars

\* =================================================================== claims
StoredIds == 1 .. Len(bookings)

Last(h) == h[Len(h)]

\* the stored reservation of the createBooking call running on p, if any
SavedFor(p) ==
  { b \in StoredIds : /\ bookings[b].pnr = proc[p].doc.pnr
                      /\ bookings[b].bookingReference = proc[p].doc.bookingReference }

\* C1: whenever createBooking has issued the provider's confirm call (it awaits
\* the answer, or has it and awaits the save), the reservation of that call is
\* already in the store, and it was in status pending while the call was out.
C1_SavedBeforeConfirm ==
  \A p \in Procs :
     proc[p].pc \in { "createAwaitAmadeus", "createAwaitSave" }
        => /\ SavedFor(p) # { }
           /\ proc[p].pc = "createAwaitAmadeus"
                 => \A b \in SavedFor(p) : bookings[b].status = "pending"

\* C2: every order the provider has made for a createBooking request belongs
\* to a request that is still running or to a stored reservation: no finished
\* createBooking leaves an order without a local record.
C2_NoOrphanOrder ==
  \A o \in 1 .. Len(orders) :
     \/ \E p \in Procs : proc[p].pc = "createAwaitSave" /\ proc[p].doc.made = o
     \/ \E b \in StoredIds : bookings[b].made = o

\* C3: the stored reservations have pairwise distinct pnr and pairwise distinct
\* bookingReference, however the createBooking calls interleave.
C3_IdentifiersUnique ==
  \A i, j \in StoredIds :
     i # j => /\ bookings[i].pnr # bookings[j].pnr
              /\ bookings[i].bookingReference # bookings[j].bookingReference

\* two reservations are stored and a further createBooking was refused by a
\* unique index
C3_Witness ==
  /\ Len(bookings) >= 2
  /\ last.op = "create" /\ last.result = "DUPLICATE_KEY_ERROR"

C5_PnrAlphabet ==
  gen.run => /\ Len(gen.pnr) = 6
             /\ CharSet(gen.pnr) \subseteq CharSet(PNR_CHARACTERS)

\* C6: every stored reservation has a non-empty statusHistory whose last entry
\* carries the reservation's current status.
C6_HistoryEndsInStatus ==
  \A b \in StoredIds :
     /\ Len(bookings[b].statusHistory) > 0
     /\ Last(bookings[b].statusHistory).status = bookings[b].status

\* C7: no step changes the status of a reservation whose status is terminal.
C7_TerminalIsFinal ==
  [][ \A b \in StoredIds :
        bookings[b].status \in Terminal => bookings'[b].status = bookings[b].status ]_vars

\* C8: cancelBooking goes ahead (calls the provider, saves, succeeds) only for
\* a reservation it read as confirmed or pending; for one it read in a terminal
\* status it has answered already-terminal without a provider call.
C8_CancelOnlyWhenActive ==
  /\ (last.op = "cancel" /\ last.result = "ok")
        => last.seen \in { "confirmed", "pending" }
  /\ (last.op = "cancel" /\ last.seen \in Terminal)
        => last.result = "BOOKING_ALREADY_CANCELLED" /\ last.remote = "none"
  /\ \A p \in Procs : proc[p].op = "cancel" => proc[p].seen \notin Terminal

\* C9: with one client, a cancelBooking call that saves appends exactly one
\* entry and leaves the reservation cancelled; a cancelBooking call made right
\* after a successful one on the same reservation answers already-cancelled and
\* changes nothing, so both calls together add one entry.
C9_SecondCancelRefused ==
  [][ /\ \A p \in Procs :
           (proc[p].pc = "cancelAwaitSave" /\ proc'[p].pc = "idle")
              => LET b == proc[p].bid
                 IN  /\ last'.op = "cancel" /\ last'.bid = b /\ last'.result = "ok"
                     /\ bookings'[b].status = "cancelled"
                     /\ Len(bookings'[b].statusHistory) = Len(bookings[b].statusHistory) + 1
                     /\ Last(bookings'[b].statusHistory).status = "cancelled"
      /\ (/\ \A q \in Procs : proc[q].pc = "idle"
          /\ last.op = "cancel" /\ last.result = "ok"
          /\ nextCall' = nextCall + 1
          /\ \/ \E q \in Procs : proc'[q].op = "cancel" /\ proc'[q].bid = last.bid
             \/ /\ \A q \in Procs : proc'[q].pc = "idle"
                /\ last'.op = "cancel" /\ last'.bid = last.bid
                /\ last'.reason \in Reasons
                /\ last'.result # "BOOKING_NOT_FOUND")
            => /\ \A q \in Procs : proc'[q].pc = "idle"
               /\ last'.result = "BOOKING_ALREADY_CANCELLED"
               /\ bookings' = bookings /\ orders' = orders
    ]_vars

\* the second of two cancelBooking calls has been refused: the reservation is
\* cancelled and its history holds the one entry of the first call
C9_Witness ==
  /\ last.op = "cancel"
  /\ last.result = "BOOKING_ALREADY_CANCELLED" /\ last.seen = "cancelled"
  /\ bookings[last.bid].status = "cancelled"
  /\ Len(bookings[last.bid].statusHistory) = 1
  /\ bookings[last.bid].statusHistory[1].reason \in Reasons

\* C10: when cancelBooking has read a confirmed reservation with an order id
\* and the provider's cancel call fails (error response, or no response), the
\* call goes on to its save, which succeeds, stores status cancelled, appends
\* one cancelled entry and leaves amadeusOrderId as it was.
C10_CancelSurvivesRemoteFailure ==
  [][ \A p \in Procs :
        LET b == proc[p].bid
        IN  /\ (/\ proc[p].pc = "cancelAwaitAmadeus" /\ proc[p].seen = "confirmed"
                /\ proc'[p] # proc[p]
                /\ \/ proc'[p].remote \in { "rejected", "indeterminate" }
                   \/ /\ proc'[p].pc = "idle"
                      /\ last'.remote \in { "rejected", "indeterminate" })
                  => proc'[p].pc = "cancelAwaitSave" /\ bookings' = bookings
            /\ (/\ proc[p].pc = "cancelAwaitSave" /\ proc[p].seen = "confirmed"
                /\ proc[p].remote \in { "rejected", "indeterminate" }
                /\ proc'[p] # proc[p])
                  => /\ proc'[p].pc = "idle"
                     /\ last'.op = "cancel" /\ last'.bid = b /\ last'.result = "ok"
                     /\ bookings'[b].status = "cancelled"
                     /\ bookings'[b].statusHistory
                           = bookings[b].statusHistory \o << Last(bookings'[b].statusHistory) >>
                     /\ Last(bookings'[b].statusHistory).status = "cancelled"
                     /\ bookings'[b].amadeusOrderId = bookings[b].amadeusOrderId
                     /\ bookings'[b].amadeusOrderId # NoOrder
    ]_vars

\* a cancelBooking call on a confirmed reservation has returned although the
\* provider's cancel call failed; the reservation is cancelled and keeps its order id
C10_Witness ==
  /\ last.op = "cancel" /\ last.result = "ok"
  /\ last.seen = "confirmed"
  /\ last.remote \in { "rejected", "indeterminate" }
  /\ bookings[last.bid].status = "cancelled"
  /\ bookings[last.bid].amadeusOrderId # NoOrder

\* C11: no step of a syncWithAmadeus call changes the status of a reservation
\* whose status is terminal, whatever order state the provider reports.
C11_SyncKeepsTerminal ==
  [][ \A p \in Procs :
        (proc[p].op = "sync" /\ proc'[p] # proc[p])
           => \A b \in StoredIds :
                 bookings[b].status \in Terminal
                    => bookings'[b].status = bookings[b].status ]_vars

\* a syncWithAmadeus call on a cancelled reservation has fetched the order and
\* saved: the reservation is synced and still cancelled
C11_Witness ==
  /\ last.op = "sync" /\ last.result = "ok" /\ last.seen = "cancelled"
  /\ bookings[last.bid].lastSyncedAt
  /\ bookings[last.bid].status = "cancelled"

\* C12: a createBooking call whose provider call stayed without response
\* returns a pending reservation without order id; and a syncWithAmadeus call
\* on such a reservation, when the provider did make the order, is not refused
\* and leaves the reservation confirmed with that order's id when it succeeds.
C12_ResyncConfirmsIndeterminate ==
  /\ (last.op = "create" /\ last.remote = "indeterminate" /\ last.result = "ok")
        => /\ bookings[last.bid].status = "pending"
           /\ bookings[last.bid].amadeusOrderId = NoOrder
  /\ (/\ last.op = "sync" /\ last.bid \in StoredIds /\ last.seen = "pending"
      /\ bookings[last.bid].made # NoOrder)
        => /\ last.result # "NO_AMADEUS_ORDER"
           /\ last.result = "ok"
                 => /\ bookings[last.bid].status = "confirmed"
                    /\ bookings[last.bid].amadeusOrderId = bookings[last.bid].made

\* C13: a createBooking call whose provider call was rejected stores a pending
\* reservation without order id, and its result carries the rejection, which
\* the result of a call left without response does not.
C13_RejectionSurfaced ==
  (last.op = "create" /\ last.remote = "rejected" /\ last.result = "ok")
     => /\ bookings[last.bid].status = "pending"
        /\ bookings[last.bid].amadeusOrderId = NoOrder
        /\ last.providerError = "rejected"

\* C14: a gateway operation that has settled has made between one and three
\* remote calls: one when the provider rejected, three when it ends without
\* response; and what it returns then is its
\* service-unavailable error, which syncWithAmadeus passes on.
C14_BoundedRetry ==
  /\ \A r \in { last } \cup { proc[p] : p \in Procs } :
        r.remote # "none"
           => /\ r.attempts \in 1 .. 3
              /\ r.remote = "rejected" => r.attempts = 1
              /\ r.remote = "indeterminate" => r.attempts = 3
  /\ (last.op = "sync" /\ last.remote = "indeterminate")
        => last.result = "SERVICE_UNAVAILABLE"

\* C15: every stored reservation that has an amadeusOrderId has a
\* statusHistory entry with status confirmed.
C15_OrderImpliesConfirmedEntry ==
  \A b \in StoredIds :
     bookings[b].amadeusOrderId # NoOrder
        => \E i \in 1 .. Len(bookings[b].statusHistory) :
              bookings[b].statusHistory[i].status = "confirmed"

\* C16: when the period after a reservation's expiresAt has passed, in which
\* the expiry sweep runs, a reservation that is pending without order id has
\* become expired, and any other reservation has kept its status.
C16_SweepExpiresHolds ==
  [][ \A b \in StoredIds :
        (bookings[b].hold = "expired" /\ bookings'[b].hold = "swept")
           => IF bookings[b].status = "pending" /\ bookings[b].amadeusOrderId = NoOrder
              THEN bookings'[b].status = "expired"
              ELSE bookings'[b].status = bookings[b].status ]_vars

\* C17: an updateBooking call that has loaded its reservation saves the patch
\* and succeeds when the reservation was confirmed and the first departure
\* more than 2 hours away; otherwise it answers not-editable and the store is
\* unchanged.
C17_UpdateOnlyWhenEditable ==
  [][ \A p \in Procs :
        (proc[p].pc = "updateAwaitSave" /\ proc'[p].pc = "idle")
           => IF proc[p].seen = "confirmed" /\ proc[p].hoursLeft > 2
              THEN last'.result = "ok"
              ELSE last'.result = "NOT_EDITABLE" /\ bookings' = bookings ]_vars

\* C18: a cancelBooking request without reason ends at once with
\* MISSING_REASON: the reservation is not read, the provider is not called and
\* neither the store nor the provider's orders change.
C18_MissingReasonRefused ==
  [][ (/\ nextCall' = nextCall + 1
       /\ \/ \E q \in Procs : /\ proc'[q] # proc[q]
                               /\ proc'[q].op = "cancel" /\ proc'[q].reason = ""
          \/ proc' = proc /\ last'.op = "cancel" /\ last'.reason = "")
         => /\ proc' = proc
            /\ last'.result = "MISSING_REASON"
            /\ last'.seen = "none" /\ last'.remote = "none"
            /\ bookings' = bookings /\ orders' = orders ]_vars

\* a cancelBooking request without reason for a stored, confirmed reservation
\* with an order id has been refused
C18_Witness ==
  /\ last.op = "cancel" /\ last.reason = "" /\ last.result = "MISSING_REASON"
  /\ last.bid \in StoredIds
  /\ bookings[last.bid].status = "confirmed"
  /\ bookings[last.bid].amadeusOrderId # NoOrder

C20_LookupNeedsMatchingVerifier ==
  last.op = "lookup" =>
    LET SameText(a, b) == UpperCase(a) = UpperCase(b)
        Verified(doc) ==
          \/ \E i \in 1 .. Len(doc.passengers) : SameText(last.lastName, doc.passengers[i].lastName)
          \/ SameText(last.email, doc.contactInfo.email)
    IN  /\ (last.lastName = << >> /\ last.email = << >>)
              => last.result = "MISSING_VERIFICATION"
        /\ last.result = "ok"
              => /\ last.bid \in StoredIds
                 /\ SameText(bookings[last.bid].pnr, last.pnr)
                 /\ Verified(bookings[last.bid])
                 /\ DOMAIN last.view \cap { "contactInfo", "email", "phone" } = { }
                 /\ \A i \in 1 .. Len(last.view.passengers) :
                       "passportNumber" \notin DOMAIN last.view.passengers[i]
        /\ last.result \in { "MISSING_VERIFICATION", "BOOKING_NOT_FOUND", "ok" }

RECURSIVE SumAmounts(_)
SumAmounts(passengerPricing) ==
  IF passengerPricing = << >> THEN 0
  ELSE SumAmounts(SubSeq(passengerPricing, 1, Len(passengerPricing) - 1))
         + passengerPricing[Len(passengerPricing)].amount

\* C21: every stored reservation has one passengerPricing entry per passenger,
\* and the amounts of the entries add up to pricing.totalPrice, give or take
\* one minor unit per passenger.
C21_AllocationSumsToTotal ==
  \A b \in StoredIds :
     LET pricing == bookings[b].pricing
         n == Len(bookings[b].passengers)
         diff == SumAmounts(pricing.passengerPricing) - pricing.totalPrice
     IN  /\ Len(pricing.passengerPricing) = n
         /\ diff <= n /\ - diff <= n

\* C22: a cancelBooking call writes its status change only while the stored
\* status of the reservation is still the one the call read; a call whose read
\* has been overtaken by another call's write changes nothing.
C22_WritesOnCurrentStatus ==
  [][ \A p \in Procs :
        (/\ proc[p].pc = "cancelAwaitSave" /\ proc'[p].pc = "idle"
         /\ bookings' # bookings)
           => bookings[proc[p].bid].status = proc[p].seen ]_vars

\* C23: the reservation that a createBooking call saves after the provider
\* confirmed the order is confirmed, carries the id of that order, and has the
\* statusHistory pending, confirmed; and every step that changes the status of
\* a stored reservation adds exactly one entry to its statusHistory.
C23_CreateConfirmedHistory ==
  [][ /\ \A p \in Procs :
           (/\ proc[p].pc = "createAwaitSave" /\ proc[p].remote = "ok"
            /\ proc'[p].pc = "idle" /\ last'.result = "ok")
              => LET doc == bookings'[Len(bookings')]
                 IN  /\ doc.status = "confirmed"
                     /\ doc.amadeusOrderId = doc.made /\ doc.made # NoOrder
                     /\ [ i \in 1 .. Len(doc.statusHistory) |-> doc.statusHistory[i].status ]
                           = << "pending", "confirmed" >>
      /\ \A b \in StoredIds :
           bookings'[b].status # bookings[b].status
              => Len(bookings'[b].statusHistory) = Len(bookings[b].statusHistory) + 1 ]_vars

\* C24: no createBooking call whose passenger list is not as long as the
\* number of travelers of each of its flight offers gets as far as the
\* provider call or the save.
C24_PassengerCountChecked ==
  \A p \in Procs :
     proc[p].pc \in { "createAwaitAmadeus", "createAwaitSave" }
        => \A i \in 1 .. Len(proc[p].data.flightOffers) :
              proc[p].data.flightOffers[i].travelers = Len(proc[p].data.passengers)

\* C25: a createBooking call whose flight offers are priced in more than one
\* currency ends with MIXED_CURRENCY and stores no reservation.
C25_MixedCurrencyRefused ==
  [][ \A p \in Procs :
        (/\ proc[p].op = "create" /\ proc'[p].pc = "idle"
         /\ \E i, j \in 1 .. Len(proc[p].data.flightOffers) :
               proc[p].data.flightOffers[i].currency # proc[p].data.flightOffers[j].currency)
           => last'.result = "MIXED_CURRENCY" /\ bookings' = bookings ]_vars

\* C26: the save of an updateBooking call leaves the status, the
\* statusHistory and the amadeusOrderId of its reservation as they were, and
\* no step of the call changes the provider's orders.
C26_UpdateKeepsStatus ==
  [][ \A p \in Procs :
        (proc[p].pc = "updateAwaitSave" /\ proc'[p].pc = "idle")
           => LET b == proc[p].bid
              IN  /\ bookings'[b].status = bookings[b].status
                  /\ bookings'[b].statusHistory = bookings[b].statusHistory
                  /\ bookings'[b].amadeusOrderId = bookings[b].amadeusOrderId
                  /\ orders' = orders ]_vars

C28_HistoryAppendOnly ==
  [][ \A b \in StoredIds :
        LET old == bookings[b].statusHistory
            new == bookings'[b].statusHistory
        IN  Len(old) <= Len(new) /\ SubSeq(new, 1, Len(old)) = old ]_vars

\* a reservation has two entries: the first from an updateBooking call, the
\* second from a cancelBooking call that had read the reservation before the
\* update was saved
C28_Witness ==
  \E b \in StoredIds :
     /\ Len(bookings[b].statusHistory) = 2
     /\ bookings[b].statusHistory[1].reason = "Manual update"
     /\ bookings[b].statusHistory[2].reason \in Reasons
     /\ last.op = "cancel" /\ last.result = "ok" /\ last.bid = b
     /\ last.seen # bookings[b].statusHistory[1].status

\* C29: an account with loginAttempts at the limit or above has lockUntil
\* set, and a login that finds the account locked ends at once with
\* ACCOUNT_LOCKED, whatever the password.
C29_LockedAtLimit ==
  [][ /\ user'.loginAttempts >= MaxLoginAttempts => user'.lockUntil # "none"
      /\ (nextCall' = nextCall + 1 /\ user.lockUntil = "future")
            => /\ req' = req
               /\ last'.op = "login" /\ last'.result = "ACCOUNT_LOCKED" ]_vars

\* C30 (as stated): a call of authenticate that presents a token added to
\* the blacklist before the call ends with TOKEN_REVOKED and attaches no
\* user, and a token that left the blacklist has expired.
C30_AlwaysTokenRevoked ==
  /\ \A p \in Procs : req[p].later => ~ req[p].user
  /\ (last.op \in AuthOps /\ last.later)
        => last.result = "TOKEN_REVOKED" /\ ~ last.user
  /\ jwt.revoked \ jwt.blacklisted \subseteq jwt.expired

\* C30 (amended): a call of authenticate that presents a token added to the
\* blacklist before the call attaches no user and ends with TOKEN_REVOKED
\* while the token is on the blacklist, with TOKEN_EXPIRED once the cleanup
\* has removed it; a token that left the blacklist has expired.
C30_RevokedNeverAccepted ==
  /\ \A p \in Procs : req[p].later => ~ req[p].user
  /\ (last.op \in AuthOps /\ last.later)
        => /\ ~ last.user
           /\ last.result \in { "TOKEN_REVOKED", "TOKEN_EXPIRED" }
           /\ last.result = "TOKEN_EXPIRED" => last.token \in jwt.expired
  /\ jwt.revoked \ jwt.blacklisted \subseteq jwt.expired

\* C30 witness: a token blacklisted by a logout or a deleteAccount has been
\* removed by the cleanup, and a call presenting it afterwards was refused.
C30_Witness ==
  /\ last.op \in AuthOps
  /\ last.later
  /\ last.token \in jwt.revoked \ jwt.blacklisted
  /\ last.result = "TOKEN_EXPIRED"
  /\ ~ last.user

====
